---- MODULE Spec2Model ----
(***************************************************************************)
(* Model of lib/data_centre/database/utils/eodhd_utils.py: the request     *)
(* helper and the four retrieval functions that reshape one provider       *)
(* response into a table.                                                  *)
(*                                                                         *)
(* Strings that the code concatenates, compares or rewrites are sequences  *)
(* of characters (<<"V","O","D">>); Python's + on strings is \o.  Fixed    *)
(* literals that are only copied are kept as one chunk.  Column labels are *)
(* TLA+ strings.  A cell of a table is a record [k, s, n]: a string, a     *)
(* missing value, a clock reading, or an opaque provider value that        *)
(* remembers the provider key and the row it came from.                    *)
(*                                                                         *)
(* The provider's answers range over: no connection; status 200, 404 or    *)
(* 600 (outside the range raise_for_status checks) with a zero-byte body,  *)
(* a non-JSON body, null, {}, an error object, [], or a list of flat       *)
(* objects that all have the same keys.  The keys drift:                   *)
(* documented keys missing, exchanged or followed by others.  Code, code   *)
(* and Exchange hold strings in every row; the provider never sends a key  *)
(* named Ticker_ID.  Exceptions follow requests >= 2.27, where a body that *)
(* is no JSON raises a RequestException.                                   *)
(***************************************************************************)
EXTENDS Integers, Sequences, FiniteSets, TLC

(* ------------------------------ bounds -------------------------------- *)

\* Most rows in one provider response.
MaxRows == 2

\* Most columns a price response may carry beyond the seven documented ones.
MaxExtra == 2

\* Last reading of the clock that a run of calls may reach.
MaxClock == 2

(* ------------------------------ values -------------------------------- *)

Str(s) == [k |-> "str", s |-> s, n |-> 0]

NaN == [k |-> "nan", s |-> <<>>, n |-> 0]

Time(t) == [k |-> "time", s |-> <<>>, n |-> t]

\* The value the provider sent under key c in row i, otherwise opaque.
Cell(c, i) == [k |-> "cell", s |-> <<c>>, n |-> i]

SeqToSet(s) == {s[i] : i \in DOMAIN s}

\* Position of the first occurrence of x in s, 0 when absent.
IndexOf(s, x) ==
    IF x \in SeqToSet(s) THEN CHOOSE i \in DOMAIN s : s[i] = x /\ \A j \in 1..(i - 1) : s[j] # x
    ELSE 0

RECURSIVE SetToSeqs(_, _)
\* All sequences over S of length at most n.
SetToSeqs(S, n) ==
    IF n = 0 THEN {<<>>}
    ELSE LET shorter == SetToSeqs(S, n - 1)
         IN  shorter \cup {Append(q, x) : q \in {p \in shorter : Len(p) = n - 1}, x \in S}

(* ------------------------- module constants --------------------------- *)

PRICE_COLUMNS_SORTED_0 ==
    <<"Ticker_ID", "Date", "Open", "High", "Low", "Close", "Adjusted_Close", "Volume">>

PRICE_COLUMNS_0 ==
    <<"Date", "Open", "High", "Low", "Close", "Adjusted_Close", "Volume", "Ticker_ID">>

NYSE == <<"N", "Y", "S", "E">>

NASDAQ == <<"N", "A", "S", "D", "A", "Q">>

\* A dict is a sequence of <<key, value>> pairs: Python dicts keep insertion order.
US_EXCHANGES_0 ==
    << <<NYSE, << <<"Name", Str(<<"New York Stock Exchange">>)>>,
                  <<"OperatingMIC", Str(<<"XNYS">>)>>,
                  <<"Country", Str(<<"US">>)>>,
                  <<"Currency", Str(<<"USD">>)>>,
                  <<"CountryISO2", Str(<<"US">>)>>,
                  <<"CountryISO3", Str(<<"USA">>)>> >> >>,
       <<NASDAQ, << <<"Name", Str(<<"NASDAQ">>)>>,
                    <<"OperatingMIC", Str(<<"XNAS">>)>>,
                    <<"Country", Str(<<"US">>)>>,
                    <<"Currency", Str(<<"USD">>)>>,
                    <<"CountryISO2", Str(<<"US">>)>>,
                    <<"CountryISO3", Str(<<"USA">>)>> >> >> >>

BASE_URL == <<"https://eodhd.com/api">>

EXCHANGES_URL == BASE_URL \o <<"/exchanges-list">>

TICKERS_URL == BASE_URL \o <<"/exchange-symbol-list">>

HISTORICAL_URL == BASE_URL \o <<"/eod">>

DAILY_URL == BASE_URL \o <<"/eod-bulk-last-day">>

\* dict.keys() and dict lookups on the pair representation.
Keys(d) == [i \in DOMAIN d |-> d[i][1]]

\* {**d, k: v}: a NEW dict; k keeps its place when d has it, else goes last.
Merged(d, kv) ==
    IF kv[1] \in SeqToSet(Keys(d))
    THEN [i \in DOMAIN d |-> IF d[i][1] = kv[1] THEN kv ELSE d[i]]
    ELSE Append(d, kv)

(* --------------------------- exceptions ------------------------------- *)

\* The direct base classes of each exception class the calls can meet.
\* requests.exceptions.JSONDecodeError (requests >= 2.27) has two:
\* InvalidJSONError and json.JSONDecodeError, which is a ValueError.
BasesOf(cls) ==
    CASE cls = "ConnectionError" -> {"RequestException"}
      [] cls = "HTTPError" -> {"RequestException"}
      [] cls = "JSONDecodeError" -> {"InvalidJSONError", "json.JSONDecodeError"}
      [] cls = "json.JSONDecodeError" -> {"ValueError"}
      [] cls = "InvalidJSONError" -> {"RequestException"}
      [] cls = "RequestException" -> {"OSError"}
      [] cls = "OSError" -> {"Exception"}
      [] cls = "KeyError" -> {"LookupError"}
      [] cls = "LookupError" -> {"Exception"}
      [] cls = "ValueError" -> {"Exception"}
      [] cls = "TypeError" -> {"Exception"}
      [] cls = "Exception" -> {"BaseException"}
      [] OTHER -> {}

RECURSIVE IsInstance(_, _)
\* except <handler>: matches the raised class and every class that has the
\* handler's class among its bases, direct or not.
IsInstance(cls, handler) ==
    \/ cls = handler
    \/ \E base \in BasesOf(cls) : IsInstance(base, handler)

\* One record of the logger: level, the exception it reports, exc_info flag.
LogRec(level, exc, info) == [level |-> level, exc |-> exc, exc_info |-> info]

(* ------------------------- the HTTP response -------------------------- *)

\* A response body: kind "empty" (zero bytes), "text" (not JSON), "null",
\* "object" (a JSON object of scalars under keys), "list" (a JSON array of
\* flat objects: keys in the provider's order, one value row per object).
Body(kind, keys, rows) == [kind |-> kind, keys |-> keys, rows |-> rows]

NullBody == Body("null", <<>>, <<>>)

\* What one GET can bring back: no connection, or a status with a body.
Response(net, status, body) == [net |-> net, status |-> status, body |-> body]

\* requests.get(url): ConnectionError when the network fails.
requests_get(url, resp) ==
    IF resp.net THEN [exc |-> "", response |-> resp]
    ELSE [exc |-> "ConnectionError", response |-> resp]

\* response.raise_for_status(): HTTPError on a 4xx or 5xx status, no other.
raise_for_status(resp) ==
    IF 400 <= resp.status /\ resp.status < 600 THEN "HTTPError" ELSE ""

\* response.json(): the parsed body, JSONDecodeError when the body is no JSON.
json(resp) ==
    IF resp.body.kind \in {"empty", "text"}
    THEN [exc |-> "JSONDecodeError", data |-> NullBody]
    ELSE [exc |-> "", data |-> resp.body]

\* Mutant of Truthy: the test "data is not None", which lets [] and {} through.
TruthyNotNone(data) == data.kind # "null"

\* Python truth value of parsed JSON: None, [] and {} are false.
Truthy(data) ==
    CASE data.kind = "null" -> FALSE
      [] data.kind = "list" -> Len(data.rows) > 0
      [] data.kind = "object" -> Len(data.keys) > 0
      [] OTHER -> FALSE

\* isinstance(data, list)
IsList(data) == data.kind = "list"

(* ------------------------------ pandas -------------------------------- *)

\* A DataFrame: labels by position and rows of cells by position; exc names
\* the exception an operation raised (every later operation of the try block
\* is then skipped).
Frame(exc, columns, data) == [exc |-> exc, columns |-> columns, data |-> data]

Raised(exc) == Frame(exc, <<>>, <<>>)

\* pd.DataFrame(data): a list of objects gives one row per object; None and {}
\* give an empty frame; an object of scalars has no index and raises ValueError.
DataFrame(data) ==
    CASE data.kind = "list" -> Frame("", data.keys, data.rows)
      [] data.kind = "object" /\ Len(data.keys) > 0 -> Raised("ValueError")
      [] OTHER -> Frame("", <<>>, <<>>)

\* Mutant of Empty: the test "price_data is None", never true of a DataFrame.
EmptyIsNone(df) == FALSE

\* df.empty: some axis has length 0.
Empty(df) == Len(df.data) = 0 \/ Len(df.columns) = 0

\* df[label] = v with v a scalar: overwrite the column, or append a new last one.
SetItem(df, label, v) ==
    IF df.exc # "" THEN df
    ELSE LET j == IndexOf(df.columns, label)
         IN  IF j > 0
             THEN Frame("", df.columns,
                        [i \in DOMAIN df.data |-> [df.data[i] EXCEPT ![j] = v]])
             ELSE Frame("", Append(df.columns, label),
                        [i \in DOMAIN df.data |-> Append(df.data[i], v)])

\* df[label]: the column as a series, KeyError when no column has the label.
GetItem(df, label) ==
    IF df.exc # "" THEN [exc |-> df.exc, vals |-> <<>>]
    ELSE LET j == IndexOf(df.columns, label)
         IN  IF j = 0 THEN [exc |-> "KeyError", vals |-> <<>>]
             ELSE [exc |-> "", vals |-> [i \in DOMAIN df.data |-> df.data[i][j]]]

\* series + suffix on strings; a missing value stays missing, anything that is
\* not a string raises TypeError.
StrAdd(series, suffix) ==
    IF series.exc # "" THEN series
    ELSE IF \E i \in DOMAIN series.vals : series.vals[i].k \notin {"str", "nan"}
    THEN [exc |-> "TypeError", vals |-> <<>>]
    ELSE [exc |-> "",
          vals |-> [i \in DOMAIN series.vals |->
                      IF series.vals[i].k = "str"
                      THEN Str(series.vals[i].s \o suffix)
                      ELSE series.vals[i]]]

\* df[label] = series: as SetItem, row by row.
SetItemSeries(df, label, series) ==
    IF df.exc # "" THEN df
    ELSE IF series.exc # "" THEN Raised(series.exc)
    ELSE LET j == IndexOf(df.columns, label)
         IN  IF j > 0
             THEN Frame("", df.columns,
                        [i \in DOMAIN df.data |-> [df.data[i] EXCEPT ![j] = series.vals[i]]])
             ELSE Frame("", Append(df.columns, label),
                        [i \in DOMAIN df.data |-> Append(df.data[i], series.vals[i])])

\* df[labels]: the named columns in the order asked, KeyError when one is missing.
Select(df, labels) ==
    IF df.exc # "" THEN df
    ELSE IF \E l \in SeqToSet(labels) : IndexOf(df.columns, l) = 0 THEN Raised("KeyError")
    ELSE Frame("", labels,
               [i \in DOMAIN df.data |->
                  [c \in DOMAIN labels |-> df.data[i][IndexOf(df.columns, labels[c])]]])

\* df.columns = labels: relabel by position, ValueError on a length mismatch.
SetColumns(df, labels) ==
    IF df.exc # "" THEN df
    ELSE IF Len(labels) # Len(df.columns) THEN Raised("ValueError")
    ELSE Frame("", labels, df.data)

\* df.drop(columns=labels): KeyError when a label is not a column.
Drop(df, labels) ==
    IF df.exc # "" THEN df
    ELSE IF \E l \in SeqToSet(labels) : IndexOf(df.columns, l) = 0 THEN Raised("KeyError")
    ELSE LET keep == SelectSeq(df.columns, LAMBDA c : c \notin SeqToSet(labels))
         IN  Frame("", keep,
                   [i \in DOMAIN df.data |->
                      [c \in DOMAIN keep |-> df.data[i][IndexOf(df.columns, keep[c])]]])

\* pd.DataFrame(list of dicts) for dicts that all have the keys of the first.
FromDicts(dicts) ==
    IF dicts = <<>> THEN Frame("", <<>>, <<>>)
    ELSE Frame("", Keys(dicts[1]),
               [i \in DOMAIN dicts |-> [c \in DOMAIN dicts[i] |-> dicts[i][c][2]]])

\* Mutant of Concat: b's rows whose Code is already among a's Codes are dropped.
ConcatDropKnownCodes(a, b) ==
    IF a.exc # "" THEN a
    ELSE IF b.exc # "" THEN b
    ELSE LET ca == IndexOf(a.columns, "Code")
             cb == IndexOf(b.columns, "Code")
             known == IF ca = 0 THEN {} ELSE {a.data[i][ca] : i \in DOMAIN a.data}
             fresh == IF cb = 0 THEN b.data
                      ELSE SelectSeq(b.data, LAMBDA r : r[cb] \notin known)
             cols == a.columns \o SelectSeq(b.columns, LAMBDA c : c \notin SeqToSet(a.columns))
             WidenA == [i \in DOMAIN a.data |->
                          [c \in DOMAIN cols |->
                             IF IndexOf(a.columns, cols[c]) = 0 THEN NaN
                             ELSE a.data[i][IndexOf(a.columns, cols[c])]]]
             WidenB == [i \in DOMAIN fresh |->
                          [c \in DOMAIN cols |->
                             IF IndexOf(b.columns, cols[c]) = 0 THEN NaN
                             ELSE fresh[i][IndexOf(b.columns, cols[c])]]]
         IN  Frame("", cols, WidenA \o WidenB)

\* pd.concat([a, b], ignore_index=True): a's rows then b's, over the union of
\* the columns in order of first appearance, missing cells NaN.
Concat(a, b) ==
    IF a.exc # "" THEN a
    ELSE IF b.exc # "" THEN b
    ELSE LET cols == a.columns \o SelectSeq(b.columns, LAMBDA c : c \notin SeqToSet(a.columns))
             Widen(f) == [i \in DOMAIN f.data |->
                            [c \in DOMAIN cols |->
                               IF IndexOf(f.columns, cols[c]) = 0 THEN NaN
                               ELSE f.data[i][IndexOf(f.columns, cols[c])]]]
         IN  Frame("", cols, Widen(a) \o Widen(b))

(* --------------------------- return values ---------------------------- *)

\* What a retrieval function hands back: None, or a DataFrame.
None == [kind |-> "None", columns |-> <<>>, data |-> <<>>]

Table(df) == [kind |-> "DataFrame", columns |-> df.columns, data |-> df.data]

\* The end of one call: the value returned, the exception that left the
\* function ("" when it returned), the records logged, and US_EXCHANGES as the
\* call leaves it.
Out(ret, exc, log, us) == [ret |-> ret, raised |-> exc, log |-> log, us |-> us]

\* Mutant of Replace: str.replace(old, new, 1), the first occurrence only.
ReplaceFirst(s, old, new) ==
    [i \in DOMAIN s |-> IF i = IndexOf(s, old) THEN new ELSE s[i]]

\* str.replace(old, new) on single characters: every occurrence.
Replace(s, old, new) == [i \in DOMAIN s |-> IF s[i] = old THEN new ELSE s[i]]

Min(a, b) == IF a < b THEN a ELSE b

(* -------------------------- request helper ---------------------------- *)

\* Mutant of make_api_request: the handler catches ConnectionError only.
make_api_request_narrow(url, resp) ==
    LET got == requests_get(url, resp)
        status == IF got.exc # "" THEN got.exc ELSE raise_for_status(got.response)
        parsed == json(got.response)
        exc == IF status # "" THEN status ELSE parsed.exc
    IN  IF exc = "" THEN [exc |-> "", data |-> parsed.data, log |-> <<>>]
        ELSE IF IsInstance(exc, "ConnectionError")
        THEN [exc |-> "", data |-> NullBody, log |-> <<LogRec("error", exc, TRUE)>>]
        ELSE [exc |-> exc, data |-> NullBody, log |-> <<>>]

\* _make_api_request(url): the parsed JSON, or None after logging when the
\* request raised a RequestException; any other exception leaves the helper.
make_api_request(url, resp) ==
    LET got == requests_get(url, resp)
        status == IF got.exc # "" THEN got.exc ELSE raise_for_status(got.response)
        parsed == json(got.response)
        exc == IF status # "" THEN status ELSE parsed.exc
    IN  IF exc = "" THEN [exc |-> "", data |-> parsed.data, log |-> <<>>]
        ELSE IF IsInstance(exc, "RequestException")
        THEN [exc |-> "", data |-> NullBody, log |-> <<LogRec("error", exc, TRUE)>>]
        ELSE [exc |-> exc, data |-> NullBody, log |-> <<>>]

(* --------------------------- retrieve_tickers ------------------------- *)

TICKER_COLUMNS ==
    <<"Ticker_ID", "Code", "Name", "Country", "Exchange", "EoDHD_Exchange",
      "Currency", "Type", "Isin", "Source", "Date_Updated">>

\* Mutant of TickerId: the suffix is the row's own Exchange field.
TickerIdFromRow(df, exchange) ==
    LET code == GetItem(df, "Code")
        own == GetItem(df, "Exchange")
    IN  IF code.exc # "" THEN code
        ELSE IF own.exc # "" THEN own
        ELSE [exc |-> "",
              vals |-> [i \in DOMAIN code.vals |->
                          Str(code.vals[i].s \o <<"_">> \o own.vals[i].s)]]

\* df['Code'] + f'_{exchange}'
TickerId(df, exchange) == StrAdd(GetItem(df, "Code"), <<"_">> \o exchange)

\* Mutant of EoDHDExchange: only the first key of US_EXCHANGES collapses.
EoDHDExchangeFirstKey(us, x) ==
    IF x.k = "str" /\ x.s = Keys(us)[1] THEN Str(<<"U", "S">>) ELSE x

\* lambda x: 'US' if x in list(US_EXCHANGES.keys()) else x
EoDHDExchange(us, x) ==
    IF x.k = "str" /\ x.s \in SeqToSet(Keys(us)) THEN Str(<<"U", "S">>) ELSE x

\* series.apply(lambda x: ...): the lambda on every value of the series.
Apply(series, us) ==
    IF series.exc # "" THEN series
    ELSE [exc |-> "", vals |-> [i \in DOMAIN series.vals |-> EoDHDExchange(us, series.vals[i])]]

retrieve_tickers(us, api_key, exchange, resp, now) ==
    LET url == TICKERS_URL \o <<"/">> \o exchange \o <<"?api_token=">> \o api_key
                 \o <<"&fmt=json">>
        req == make_api_request(url, resp)
        data == req.data
        df0 == DataFrame(data)
        df1 == SetItem(df0, "Source", Str(<<"EoDHD.com - Exchange ">> \o exchange))
        df2 == SetItem(df1, "Date_Updated", Time(now[1]))
        df3 == SetItemSeries(df2, "Ticker_ID", TickerId(df2, exchange))
        df4 == SetItemSeries(df3, "EoDHD_Exchange",
                             Apply(GetItem(df3, "Exchange"), us))
        df5 == Select(df4, TICKER_COLUMNS)
    IN  IF req.exc # "" THEN Out(None, req.exc, req.log, us)
        ELSE IF ~Truthy(data) \/ ~IsList(data) THEN Out(None, "", req.log, us)
        ELSE IF df5.exc = "" THEN Out(Table(df5), "", req.log, us)
        ELSE IF IsInstance(df5.exc, "Exception")
        THEN Out(None, "", req.log \o <<LogRec("error", df5.exc, FALSE)>>, us)
        ELSE Out(None, df5.exc, req.log, us)

(* -------------------------- retrieve_exchanges ------------------------ *)

\* {**exchange_data, 'Code': code, 'Source': 'Manual_Input', 'Date_Updated': now}
ManualRow(code, exchange_data, now) ==
    Merged(Merged(Merged(exchange_data, <<"Code", Str(code)>>),
                  <<"Source", Str(<<"Manual_Input">>)>>),
           <<"Date_Updated", Time(now)>>)

\* Mutant of Unpacked: the keys are written into exchange_data itself.
UnpackedInPlace(exchange_data, new_dict) == new_dict

\* The dict that ** unpacked, after the new dict was built from it: untouched.
Unpacked(exchange_data, new_dict) == exchange_data

retrieve_exchanges(us, api_key, resp, now) ==
    LET url == EXCHANGES_URL \o <<"/?api_token=">> \o api_key \o <<"&fmt=json">>
        req == make_api_request(url, resp)
        data == req.data
        df0 == DataFrame(data)
        df1 == SetItem(df0, "Source", Str(<<"EoDHD.com">>))
        df2 == SetItem(df1, "Date_Updated", Time(now[1]))
        rows == [i \in DOMAIN us |-> ManualRow(us[i][1], us[i][2], now[i + 1])]
        us_exchanges == FromDicts(rows)
        after == [i \in DOMAIN us |-> <<us[i][1], Unpacked(us[i][2], rows[i])>>]
        all == Concat(df2, us_exchanges)
    IN  IF req.exc # "" THEN Out(None, req.exc, req.log, us)
        ELSE IF ~Truthy(data) THEN Out(None, "", req.log, us)
        ELSE IF all.exc = "" THEN Out(Table(all), "", req.log, after)
        ELSE IF IsInstance(all.exc, "Exception")
        THEN Out(None, "", req.log \o <<LogRec("error", all.exc, TRUE)>>, us)
        ELSE Out(None, all.exc, req.log, us)

(* ---------------------- retrieve_historical_price --------------------- *)

retrieve_historical_price(us, pc, pcs, exchange, ticker, date_to, eodhd_api, resp) ==
    LET eod_ticker == ticker \o <<".">> \o exchange
        url == <<"https://eodhd.com/api/eod/">> \o eod_ticker \o <<"?api_token=">>
                 \o eodhd_api \o <<"&from=", "1900-01-01", "&to=">> \o date_to
                 \o <<"&fmt=json">>
        got == requests_get(url, resp)
        parsed == json(got.response)
        price_data == IF got.exc # "" THEN Raised(got.exc)
                      ELSE IF parsed.exc # "" THEN Raised(parsed.exc)
                      ELSE DataFrame(parsed.data)
        id == Replace(eod_ticker, ".", "_")
        df1 == SetItem(price_data, "Ticker_ID", Str(id))
        df2 == SetColumns(df1, SubSeq(pc, 1, Min(Len(df1.columns), Len(pc))))
        df3 == Select(df2, pcs)
    IN  IF price_data.exc = "" /\ Empty(price_data)
        THEN Out(None, "", <<LogRec("debug", "", FALSE)>>, us)
        ELSE IF df3.exc = "" THEN Out(Table(df3), "", <<>>, us)
        ELSE IF IsInstance(df3.exc, "Exception")
        THEN Out(None, "", <<LogRec("error", df3.exc, FALSE)>>, us)
        ELSE Out(None, df3.exc, <<>>, us)

(* ------------------------- retrieve_daily_price ----------------------- *)

\* df['code'] + f'_{exchange}'
DailyTickerId(df, exchange) == StrAdd(GetItem(df, "code"), <<"_">> \o exchange)

\* Mutant of DailyReturn: the sorted frame is returned as it is.
DailyReturnSorted(df, pc) == df

\* return df[PRICE_COLUMNS]
DailyReturn(df, pc) == Select(df, pc)

retrieve_daily_price(us, pc, pcs, exchange, api_key, resp) ==
    LET url == DAILY_URL \o <<"/">> \o exchange \o <<"?api_token=">> \o api_key
                 \o <<"&fmt=json">>
        req == make_api_request(url, resp)
        data == req.data
        df0 == DataFrame(data)
        df1 == SetItemSeries(df0, "Ticker_ID", DailyTickerId(df0, exchange))
        df2 == Drop(df1, <<"code", "exchange_short_name">>)
        df3 == SetColumns(df2, pc)
        df4 == Select(df3, pcs)
        df5 == DailyReturn(df4, pc)
    IN  IF req.exc # "" THEN Out(None, req.exc, req.log, us)
        ELSE IF ~Truthy(data)
        THEN Out(None, "", req.log \o <<LogRec("warning", "", FALSE)>>, us)
        ELSE IF df5.exc = "" THEN Out(Table(df5), "", req.log, us)
        ELSE IF IsInstance(df5.exc, "Exception")
        THEN Out(None, "", req.log \o <<LogRec("error", df5.exc, TRUE)>>, us)
        ELSE Out(None, df5.exc, req.log, us)

(* ------------------------ the provider's answers ---------------------- *)

LSE == <<"L", "S", "E">>

US == <<"U", "S">>

ApiKeys == {<<"d", "e", "m", "o">>}

\* Exchange codes a caller passes.
ExchangeArgs == {LSE, US, NYSE}

\* Ticker codes a caller passes; BRK.B has the separator inside the ticker.
TickerArgs == {<<"A", "A", "P", "L">>, <<"B", "R", "K", ".", "B">>}

DateArgs == {<<"2024-01-31">>}

\* Codes and exchange fields the provider sends in rows.
ProviderCodes == {<<"V", "O", "D">>, <<"A", "A", "P", "L">>}

ProviderExchanges == {LSE, NYSE, NASDAQ}

Swap(s, i, j) == [s EXCEPT ![i] = s[j], ![j] = s[i]]

Remove(s, i) == SubSeq(s, 1, i - 1) \o SubSeq(s, i + 1, Len(s))

\* Every status and body kind around the given list bodies, and the network failure.
ResponsesOver(lists) ==
    LET bodies == lists \cup {Body("empty", <<>>, <<>>), Body("text", <<>>, <<>>), NullBody,
                              Body("object", <<>>, <<>>),
                              Body("object", <<"error">>, << <<Cell("error", 1)>> >>),
                              Body("list", <<>>, <<>>)}
    IN  {Response(FALSE, 0, NullBody)}
          \cup {Response(TRUE, s, b) : s \in {200, 404, 600}, b \in bodies}

\* Row i of a list body: the picked strings under the picked keys, opaque
\* provider values under every other key.
Row(keys, picked, i) ==
    [c \in DOMAIN keys |->
       IF keys[c] \in DOMAIN picked THEN Str(picked[keys[c]]) ELSE Cell(keys[c], i)]

\* exchange-symbol-list rows.
TICKER_KEYS == <<"Code", "Name", "Country", "Exchange", "Currency", "Type", "Isin">>

TickerSchemas ==
    {TICKER_KEYS, Remove(TICKER_KEYS, 1), Remove(TICKER_KEYS, 4), Remove(TICKER_KEYS, 7),
     Swap(TICKER_KEYS, 1, 4), Append(TICKER_KEYS, "Delisted")}

TickerResponses ==
    ResponsesOver(
      {Body("list", keys, [i \in DOMAIN picks |->
                             Row(keys, [Code |-> picks[i][1], Exchange |-> picks[i][2]], i)]) :
         keys \in TickerSchemas,
         picks \in SetToSeqs(ProviderCodes \X ProviderExchanges, MaxRows) \ {<<>>}})

\* exchanges-list rows.
EXCHANGE_KEYS ==
    <<"Name", "Code", "OperatingMIC", "Country", "Currency", "CountryISO2", "CountryISO3">>

ExchangeSchemas ==
    {EXCHANGE_KEYS, Remove(EXCHANGE_KEYS, 2), Append(EXCHANGE_KEYS, "Source"),
     SubSeq(EXCHANGE_KEYS, 1, 2), <<>>}

ExchangeResponses ==
    ResponsesOver(
      {Body("list", keys, [i \in DOMAIN picks |-> Row(keys, [Code |-> picks[i]], i)]) :
         keys \in ExchangeSchemas, picks \in SetToSeqs({LSE, NYSE}, MaxRows) \ {<<>>}})

\* eod rows: the seven documented keys, then whatever else the provider adds.
PROVIDER_PRICE_KEYS == <<"date", "open", "high", "low", "close", "adjusted_close", "volume">>

EXTRA_KEYS == <<"warning", "split", "dividend", "currency">>

AllPriceKeys == PROVIDER_PRICE_KEYS \o SubSeq(EXTRA_KEYS, 1, MaxExtra)

PricePrefixes == {SubSeq(AllPriceKeys, 1, k) : k \in 0..Len(AllPriceKeys)}

\* Schema drift: a prefix of the keys, two keys exchanged, or one key gone.
PriceSchemas ==
    PricePrefixes
      \cup UNION {{Swap(s, i, j) : i \in 1..Len(s), j \in 1..Len(s)} : s \in PricePrefixes}
      \cup UNION {{Remove(s, i) : i \in 1..Len(s)} : s \in PricePrefixes}

HistoricalResponses ==
    ResponsesOver(
      {Body("list", keys, [i \in 1..n |-> Row(keys, <<>>, i)]) :
         keys \in PriceSchemas, n \in 1..MaxRows})

\* eod-bulk-last-day rows: code and exchange_short_name around the price keys.
DailySchemas ==
    {fb[1] \o s \o fb[2] :
       s \in PricePrefixes,
       fb \in {<< <<"code", "exchange_short_name">>, <<>> >>,
               << <<"exchange_short_name", "code">>, <<>> >>,
               << <<"code">>, <<"exchange_short_name">> >>,
               << <<>>, <<"code", "exchange_short_name">> >>,
               << <<"code">>, <<>> >>,
               << <<"exchange_short_name">>, <<>> >>,
               << <<>>, <<>> >>}}

DailyResponses ==
    ResponsesOver(
      {Body("list", keys, [i \in DOMAIN picks |-> Row(keys, [code |-> picks[i]], i)]) :
         keys \in DailySchemas, picks \in SetToSeqs(ProviderCodes, MaxRows) \ {<<>>}})

(* --------------------------- the state machine ------------------------ *)

VARIABLES
    US_EXCHANGES,           \* the module-level dict
    PRICE_COLUMNS,          \* the module-level list
    PRICE_COLUMNS_SORTED,   \* the module-level list
    clock,                  \* what datetime.datetime.now() reads
    call,                   \* the call the caller made last, "none" before it calls
    result,                 \* what that call returned
    raised,                 \* the exception that left that call, "" when it returned
    log,                    \* what that call logged
    built                   \* history: the manual exchange rows were built before

vars ==
    <<US_EXCHANGES, PRICE_COLUMNS, PRICE_COLUMNS_SORTED, clock, call, result, raised, log,
      built>>

NoCall ==
    [fn |-> "none", api_key |-> <<>>, exchange |-> <<>>, ticker |-> <<>>, date_to |-> <<>>,
     resp |-> Response(FALSE, 0, NullBody), now |-> <<>>]

Init ==
    /\ US_EXCHANGES = US_EXCHANGES_0
    /\ PRICE_COLUMNS = PRICE_COLUMNS_0
    /\ PRICE_COLUMNS_SORTED = PRICE_COLUMNS_SORTED_0
    /\ clock = 0
    /\ call = NoCall
    /\ result = None
    /\ raised = ""
    /\ log = <<>>
    /\ built = FALSE

\* The call ends: what it returned, raised, logged and left in US_EXCHANGES.
Ends(out) ==
    /\ result' = out.ret
    /\ raised' = out.raised
    /\ log' = out.log
    /\ US_EXCHANGES' = out.us
    /\ UNCHANGED <<PRICE_COLUMNS, PRICE_COLUMNS_SORTED>>

call_retrieve_tickers ==
    /\ call.fn = "none"
    /\ \E api_key \in ApiKeys, exchange \in ExchangeArgs, resp \in TickerResponses,
          t \in clock..MaxClock :
          /\ call' = [NoCall EXCEPT !.fn = "retrieve_tickers", !.api_key = api_key,
                                    !.exchange = exchange, !.resp = resp, !.now = <<t>>]
          /\ clock' = t
          /\ built' = built
          /\ Ends(retrieve_tickers(US_EXCHANGES, api_key, exchange, resp, <<t>>))

call_retrieve_exchanges ==
    /\ call.fn = "none"
    /\ \E api_key \in ApiKeys, resp \in ExchangeResponses,
          t1 \in clock..MaxClock, t2 \in clock..MaxClock, t3 \in clock..MaxClock :
          /\ t1 <= t2 /\ t2 <= t3
          /\ call' = [NoCall EXCEPT !.fn = "retrieve_exchanges", !.api_key = api_key,
                                    !.resp = resp, !.now = <<t1, t2, t3>>]
          /\ clock' = t3
          /\ LET out == retrieve_exchanges(US_EXCHANGES, api_key, resp, <<t1, t2, t3>>)
             IN  built' = (built \/ out.ret.kind = "DataFrame") /\ Ends(out)

call_retrieve_historical_price ==
    /\ call.fn = "none"
    /\ \E exchange \in ExchangeArgs, ticker \in TickerArgs, date_to \in DateArgs,
          eodhd_api \in ApiKeys, resp \in HistoricalResponses :
          /\ call' = [NoCall EXCEPT !.fn = "retrieve_historical_price",
                                    !.api_key = eodhd_api, !.exchange = exchange,
                                    !.ticker = ticker, !.date_to = date_to, !.resp = resp]
          /\ UNCHANGED <<clock, built>>
          /\ Ends(retrieve_historical_price(US_EXCHANGES, PRICE_COLUMNS, PRICE_COLUMNS_SORTED,
                                            exchange, ticker, date_to, eodhd_api, resp))

call_retrieve_daily_price ==
    /\ call.fn = "none"
    /\ \E exchange \in ExchangeArgs, api_key \in ApiKeys, resp \in DailyResponses :
          /\ call' = [NoCall EXCEPT !.fn = "retrieve_daily_price", !.api_key = api_key,
                                    !.exchange = exchange, !.resp = resp]
          /\ UNCHANGED <<clock, built>>
          /\ Ends(retrieve_daily_price(US_EXCHANGES, PRICE_COLUMNS, PRICE_COLUMNS_SORTED,
                                       exchange, api_key, resp))

\* The caller has the returned value and goes on to its next call; the module
\* keeps nothing of the call but its module-level values.
caller_continues ==
    /\ call.fn # "none"
    /\ call' = NoCall
    /\ result' = None
    /\ raised' = ""
    /\ log' = <<>>
    /\ UNCHANGED <<US_EXCHANGES, PRICE_COLUMNS, PRICE_COLUMNS_SORTED, clock, built>>

Next ==
    \/ call_retrieve_tickers
    \/ call_retrieve_exchanges
    \/ call_retrieve_historical_price
    \/ call_retrieve_daily_price
    \/ caller_continues

Spec == Init /\ [][Next]_vars

(* ------------------------------ claims -------------------------------- *)

IsTable == result.kind = "DataFrame"

\* The cell of the returned table in row i under the label.
At(i, label) == result.data[i][IndexOf(result.columns, label)]

\* The value the provider sent in row i under the key.
ProviderAt(i, key) == call.resp.body.rows[i][IndexOf(call.resp.body.keys, key)]

\* The request went through with a 2xx status.
Succeeded == call.resp.net /\ call.resp.status = 200

\* The provider answered with a JSON value that holds nothing: [], null or {}.
EmptyAnswer ==
    /\ Succeeded
    /\ \/ call.resp.body.kind = "list" /\ call.resp.body.rows = <<>>
       \/ call.resp.body.kind = "null"
       \/ call.resp.body.kind = "object" /\ call.resp.body.keys = <<>>

\* C1: whatever the single HTTP request brings (network failure, non-2xx
\* status, empty or non-JSON body, a body of the wrong shape, a well-formed
\* body), each of the four functions ends by returning None or a table with
\* at least one row; no exception leaves the call.
C1_ReturnsTableOrNone ==
    call.fn # "none" =>
        /\ raised = ""
        /\ \/ result = None
           \/ IsTable /\ Len(result.data) >= 1 /\ Len(result.columns) >= 1

\* C1 happens: a request answered with a non-2xx status ended in None, the
\* HTTPError caught and logged by the helper.
C1_Witness ==
    /\ call.fn = "retrieve_daily_price"
    /\ call.resp.net /\ call.resp.status = 404
    /\ raised = "" /\ result = None
    /\ log = <<LogRec("error", "HTTPError", TRUE), LogRec("warning", "", FALSE)>>

\* C2: for a list response of n >= 1 exchange rows, retrieve_exchanges returns
\* n + 2 rows: the provider's rows first, in order, tagged Source EoDHD.com,
\* then NYSE and NASDAQ tagged Manual_Input, whatever codes the provider sent.
C2_ExchangeRows ==
    (call.fn = "retrieve_exchanges" /\ Succeeded /\ call.resp.body.kind = "list"
       /\ Len(call.resp.body.rows) >= 1) =>
        LET n == Len(call.resp.body.rows)
            keys == call.resp.body.keys
        IN  /\ IsTable
            /\ Len(result.data) = n + 2
            /\ \A i \in 1..n :
                  /\ At(i, "Source") = Str(<<"EoDHD.com">>)
                  /\ \A c \in DOMAIN keys :
                        keys[c] # "Source" => At(i, keys[c]) = ProviderAt(i, keys[c])
            /\ At(n + 1, "Code") = Str(NYSE)
            /\ At(n + 2, "Code") = Str(NASDAQ)
            /\ At(n + 1, "Source") = Str(<<"Manual_Input">>)
            /\ At(n + 2, "Source") = Str(<<"Manual_Input">>)
            /\ At(n + 1, "OperatingMIC") = Str(<<"XNYS">>)
            /\ At(n + 2, "OperatingMIC") = Str(<<"XNAS">>)

\* C2 happens: the provider itself sent a row with Code NYSE, and the table
\* has that row and the manual NYSE row.
C2_Witness ==
    /\ call.fn = "retrieve_exchanges" /\ Succeeded /\ IsTable
    /\ call.resp.body.keys = EXCHANGE_KEYS
    /\ Len(call.resp.body.rows) = 2
    /\ ProviderAt(2, "Code") = Str(NYSE)
    /\ Len(result.data) = 4
    /\ At(2, "Code") = Str(NYSE) /\ At(3, "Code") = Str(NYSE)

\* C3 as claimed: an empty exchange list still gives the two manual rows.
C3_EmptyGivesManualRows ==
    (call.fn = "retrieve_exchanges" /\ EmptyAnswer) => IsTable /\ Len(result.data) = 2

\* C3 as amended: when the exchange-list request succeeds with an empty
\* response, retrieve_exchanges returns None; the manual rows are not built
\* and nothing is logged.
C3_EmptyGivesNone ==
    (call.fn = "retrieve_exchanges" /\ EmptyAnswer) =>
        result = None /\ raised = "" /\ log = <<>>

\* C3 happens: the provider answered 200 with [] and the call returned None.
C3_Witness ==
    /\ call.fn = "retrieve_exchanges" /\ Succeeded
    /\ call.resp.body = Body("list", <<>>, <<>>)
    /\ result = None

\* C4: in every table retrieve_tickers returns, each row's Ticker_ID is the
\* row's provider Code, then "_", then the exchange argument of the call; so
\* two rows with one Ticker_ID have one Code.
C4_TickerId ==
    (call.fn = "retrieve_tickers" /\ IsTable) =>
        /\ \A i \in DOMAIN result.data :
              At(i, "Ticker_ID") = Str(ProviderAt(i, "Code").s \o <<"_">> \o call.exchange)
        /\ \A i, j \in DOMAIN result.data :
              At(i, "Ticker_ID") = At(j, "Ticker_ID") => ProviderAt(i, "Code") = ProviderAt(j, "Code")

\* C4 happens: a row whose own Exchange field differs from the argument.
C4_Witness ==
    /\ call.fn = "retrieve_tickers" /\ IsTable
    /\ call.exchange = LSE
    /\ Len(result.data) = 2
    /\ ProviderAt(1, "Exchange") = Str(NYSE)
    /\ ProviderAt(1, "Code") # ProviderAt(2, "Code")
    /\ At(1, "Ticker_ID") = Str(<<"V", "O", "D", "_", "L", "S", "E">>)

\* C5: in every table retrieve_tickers returns, EoDHD_Exchange is "US" when the
\* provider's Exchange field of the row is NYSE or NASDAQ and is that field
\* otherwise; the Exchange column is what the provider sent.
C5_EoDHDExchange ==
    (call.fn = "retrieve_tickers" /\ IsTable) =>
        \A i \in DOMAIN result.data :
            /\ At(i, "EoDHD_Exchange") =
                 (IF ProviderAt(i, "Exchange") \in {Str(NYSE), Str(NASDAQ)}
                  THEN Str(<<"U", "S">>)
                  ELSE ProviderAt(i, "Exchange"))
            /\ At(i, "Exchange") = ProviderAt(i, "Exchange")

\* C5 happens: one row collapses NASDAQ to US, the other keeps LSE.
C5_Witness ==
    /\ call.fn = "retrieve_tickers" /\ IsTable
    /\ Len(result.data) = 2
    /\ ProviderAt(1, "Exchange") = Str(NASDAQ) /\ At(1, "EoDHD_Exchange") = Str(US)
    /\ ProviderAt(2, "Exchange") = Str(LSE) /\ At(2, "EoDHD_Exchange") = Str(LSE)
    /\ At(1, "Exchange") = Str(NASDAQ)

\* The label of the fixed layout that describes a provider price key.
LabelFor(key) ==
    CASE key = "date" -> "Date"
      [] key = "open" -> "Open"
      [] key = "high" -> "High"
      [] key = "low" -> "Low"
      [] key = "close" -> "Close"
      [] key = "adjusted_close" -> "Adjusted_Close"
      [] key = "volume" -> "Volume"
      [] OTHER -> "(none)"

\* C6: in every table retrieve_historical_price returns, the Ticker_ID column
\* holds ticker + "." + exchange with every "." turned into "_", in every
\* row, and the columns are the sorted layout, Ticker_ID first.
C6_HistoricalTickerId ==
    (call.fn = "retrieve_historical_price" /\ IsTable) =>
        LET eod_ticker == call.ticker \o <<".">> \o call.exchange
        IN  /\ result.columns = <<"Ticker_ID", "Date", "Open", "High", "Low", "Close",
                                  "Adjusted_Close", "Volume">>
            /\ \A i \in DOMAIN result.data :
                  /\ At(i, "Ticker_ID").k = "str"
                  /\ Len(At(i, "Ticker_ID").s) = Len(eod_ticker)
                  /\ \A c \in DOMAIN eod_ticker :
                        At(i, "Ticker_ID").s[c] = (IF eod_ticker[c] = "." THEN "_" ELSE eod_ticker[c])
                  /\ "." \notin SeqToSet(At(i, "Ticker_ID").s)

\* C6 happens: a ticker with a "." of its own, BRK.B on US, gives BRK_B_US.
C6_Witness ==
    /\ call.fn = "retrieve_historical_price" /\ IsTable
    /\ call.ticker = <<"B", "R", "K", ".", "B">> /\ call.exchange = US
    /\ Len(result.data) = 2
    /\ At(2, "Ticker_ID") = Str(<<"B", "R", "K", "_", "B", "_", "U", "S">>)

\* C7: when the historical-price request succeeds with an empty response,
\* retrieve_historical_price returns None on the path that is no error: one
\* debug record is logged, no error record, and no exception is raised or
\* caught.
C7_EmptyHistoryIsNoError ==
    (call.fn = "retrieve_historical_price" /\ EmptyAnswer) =>
        /\ result = None
        /\ raised = ""
        /\ log = <<LogRec("debug", "", FALSE)>>

\* C7 happens: the provider answered 200 with [] for the ticker.
C7_Witness ==
    /\ call.fn = "retrieve_historical_price" /\ Succeeded
    /\ call.resp.body = Body("list", <<>>, <<>>)
    /\ result = None
    /\ Len(log) = 1 /\ log[1].level = "debug"

\* C8: in every table retrieve_daily_price returns, no column is named code or
\* exchange_short_name, each row's Ticker_ID is the row's provider code, then
\* "_", then the exchange argument, and the columns are the unsorted layout,
\* Ticker_ID last.
C8_DailyLayout ==
    (call.fn = "retrieve_daily_price" /\ IsTable) =>
        /\ result.columns = <<"Date", "Open", "High", "Low", "Close", "Adjusted_Close",
                              "Volume", "Ticker_ID">>
        /\ "code" \notin SeqToSet(result.columns)
        /\ "exchange_short_name" \notin SeqToSet(result.columns)
        /\ \A i \in DOMAIN result.data :
              At(i, "Ticker_ID") = Str(ProviderAt(i, "code").s \o <<"_">> \o call.exchange)

\* C8 happens: two provider rows with different codes come back as two rows.
C8_Witness ==
    /\ call.fn = "retrieve_daily_price" /\ IsTable
    /\ call.exchange = US
    /\ Len(result.data) = 2
    /\ At(1, "Ticker_ID") = Str(<<"V", "O", "D", "_", "U", "S">>)
    /\ At(2, "Ticker_ID") = Str(<<"A", "A", "P", "L", "_", "U", "S">>)

\* The historical response has rows of k provider columns.
HistoricalColumns(k) ==
    /\ call.fn = "retrieve_historical_price"
    /\ call.resp.net
    /\ call.resp.body.kind = "list"
    /\ Len(call.resp.body.rows) >= 1
    /\ Len(call.resp.body.keys) = k

\* C9, first part: with fewer than 7 provider columns the positional
\* assignment of names does not fail (no ValueError from df.columns = ...).
C9_FewerColumnsAssign ==
    \A k \in 1..6 :
        HistoricalColumns(k) => \A r \in DOMAIN log : log[r].exc # "ValueError"

\* C9, second part: with more than 7 provider columns the function logs an
\* error and returns None.
C9_MoreColumnsFailLoudly ==
    \A k \in 8..(7 + MaxExtra) :
        HistoricalColumns(k) =>
            result = None /\ \E r \in DOMAIN log : log[r].level = "error"

\* C9, third part: no returned table has a label on a column it does not
\* describe; the synthesized id is under Ticker_ID and nowhere else.
C9_LabelsDescribeColumns ==
    (call.fn = "retrieve_historical_price" /\ IsTable) =>
        \A i \in DOMAIN result.data : \A c \in DOMAIN result.columns :
            IF result.data[i][c].k = "cell"
            THEN LabelFor(result.data[i][c].s[1]) = result.columns[c]
            ELSE result.columns[c] = "Ticker_ID"

\* C9: for k provider columns, k < 7 does not fail the assignment of names,
\* k > 7 fails loudly, and for no k is a table returned with a label on a
\* column it does not describe.
C9_NoSilentMislabel ==
    C9_FewerColumnsAssign /\ C9_MoreColumnsFailLoudly /\ C9_LabelsDescribeColumns

\* What the last call returns when the module-level values are as the module
\* defines them: a function of the call's arguments, the provider's response
\* and the clock readings of the call alone.
Expected ==
    CASE call.fn = "retrieve_tickers" ->
           retrieve_tickers(US_EXCHANGES_0, call.api_key, call.exchange, call.resp,
                            call.now).ret
      [] call.fn = "retrieve_exchanges" ->
           retrieve_exchanges(US_EXCHANGES_0, call.api_key, call.resp, call.now).ret
      [] call.fn = "retrieve_historical_price" ->
           retrieve_historical_price(US_EXCHANGES_0, PRICE_COLUMNS_0, PRICE_COLUMNS_SORTED_0,
                                     call.exchange, call.ticker, call.date_to, call.api_key,
                                     call.resp).ret
      [] call.fn = "retrieve_daily_price" ->
           retrieve_daily_price(US_EXCHANGES_0, PRICE_COLUMNS_0, PRICE_COLUMNS_SORTED_0,
                                call.exchange, call.api_key, call.resp).ret
      [] OTHER -> None

\* C10: after any sequence of calls the module-level US_EXCHANGES,
\* PRICE_COLUMNS and PRICE_COLUMNS_SORTED are as the module defines them, the
\* US_EXCHANGES entries have no Code, Source or Date_Updated key, and what a
\* call returns depends on that call's arguments, response and clock readings
\* only, not on any call before it.
C10_NoSharedState ==
    /\ US_EXCHANGES = US_EXCHANGES_0
    /\ PRICE_COLUMNS = PRICE_COLUMNS_0
    /\ PRICE_COLUMNS_SORTED = PRICE_COLUMNS_SORTED_0
    /\ \A i \in DOMAIN US_EXCHANGES :
          SeqToSet(Keys(US_EXCHANGES[i][2])) \cap {"Code", "Source", "Date_Updated"} = {}
    /\ result = Expected

\* C10 happens: the manual rows were built by an earlier retrieve_exchanges
\* call, and a later retrieve_tickers call reads the keys of US_EXCHANGES.
C10_Witness ==
    /\ built
    /\ call.fn = "retrieve_tickers" /\ IsTable
    /\ call.now[1] > 0
    /\ ProviderAt(1, "Exchange") = Str(NASDAQ)
    /\ At(1, "EoDHD_Exchange") = Str(US)

====
